---- MODULE Spec2Model ----
(***************************************************************************)
(* A model of arpc's connection runtime (Client): Run/Stop, the sendLoop   *)
(* and recvLoop goroutines, the reconnect steps of recvLoop, Call,         *)
(* CallAsync, PushMsg and the two correlation tables (sessionMap,          *)
(* asyncHandlerMap) with their object pools.                               *)
(*                                                                         *)
(* Every critical section that runs under Client.mux is one atomic step;   *)
(* every access made without the lock (running, reconnecting, Conn,        *)
(* chSend, the fields of a pooled object) is a step of its own, so the     *)
(* interleavings the goroutines can produce are the interleavings of the   *)
(* actions below.                                                          *)
(***************************************************************************)
EXTENDS Integers, Sequences, FiniteSets, TLC

\* ---------------------------------------------------------------- bounds
NumProcs == 2        \* application goroutines calling Call/CallAsync/PushMsg
MaxSeq == 2          \* sequence numbers issued by newReqMessage
MaxPush == 1         \* messages handed to PushMsg
MaxRuns == 2         \* Run calls that find the client not running
MaxConns == 2        \* connections ever opened (the first one and the dials)
MaxObjs == 2         \* objects a pool's New ever allocates
SendQueueSize == 1   \* capacity of chSend (Handler.SendQueueSize())
NumPeers == 2        \* connections accepted by the pub/sub Server
MaxTopics == 1       \* distinct non-empty topic names
MaxReqs == 3         \* requests a connection sends to the Server
MaxCts == 3          \* clientTopics objects addClient ever allocates
MaxAgents == 2       \* TopicAgents newTopicAgent ever allocates

Procs == 1..NumProcs
Seqs == 1..MaxSeq
Gens == 1..MaxRuns
Objs == 1..MaxObjs
Nil == 0

VARIABLES
    Dialer,          \* Client.Dialer != nil
    running,         \* Client.running
    reconnecting,    \* Client.reconnecting
    Conn,            \* Client.Conn: a connection id, Nil for nil
    Reader,          \* Client.Reader: the connection it wraps
    closedConns,     \* connections on which Close() was called
    nConns,          \* connections opened so far
    chSend,          \* Client.chSend: the channel made by the chSend-th Run
    chans,           \* the channels: [buf, closed]
    seq,             \* Client.seq
    sessionMap,      \* Client.sessionMap: seq -> session object, Nil if absent
    asyncHandlerMap, \* Client.asyncHandlerMap: seq -> handler object
    done,            \* rpcSession.done of every session object (capacity 1)
    sessionPool,     \* session objects lying in the pool
    nSess,           \* session objects allocated so far
    hcb,             \* asyncHandler.h of every handler object: whose callback
    handlerPool,     \* handler objects lying in the pool
    nHand,           \* handler objects allocated so far
    timers,          \* seqs with an armed time.AfterFunc expiry timer
    proc,            \* the application goroutines
    pushes,          \* PushMsg messages built so far
    rl,              \* recvLoop goroutine of each Run: [pc, msg, obj, and
                     \*   conn, stops: the connection it dialed last and the
                     \*   number of effective Stops at that moment]
    sl,              \* sendLoop goroutine of each Run: [pc, ch, msg, conn]
    asyncFlag,       \* header async byte of each request built: 0, 1; -1 unbuilt
    wire,            \* <<seq, conn>>: requests written to conn and not answered
    hist             \* history of observable events

\* The pub/sub Server and the connections it serves (each an arpc.Client
\* made by newClientWithConn).
VARIABLES
    UserData,        \* Client.UserData of each connection: a clientTopics, Nil
    nCts,            \* clientTopics objects allocated so far
    topicAgents,     \* clientTopics.topicAgents: name -> TopicAgent, Nil if absent
    ctsMux,          \* clientTopics.mux: [w: the writer, r: the readers]
    topics,          \* Server.topics: name -> TopicAgent, Nil if absent
    nAgents,         \* TopicAgents allocated so far
    agentName,       \* TopicAgent.Name of each allocated agent
    members,         \* membership set of each TopicAgent
    peerRunning,     \* Client.running of each connection
    peerMux,         \* Client.mux of each connection: the thread holding it
    reqs,            \* requests each connection has sent
    hd,              \* the receive loop of each connection, inside a handler
    st,              \* the thread calling Stop on each connection
    pshist           \* history of observable pub/sub events

psVars == <<UserData, nCts, topicAgents, ctsMux, topics, nAgents, agentName,
            members, peerRunning, peerMux, reqs, hd, st, pshist>>

vars == <<Dialer, running, reconnecting, Conn, Reader, closedConns, nConns,
          chSend, chans, seq, sessionMap, asyncHandlerMap, done, sessionPool,
          nSess, hcb, handlerPool, nHand, timers, proc, pushes, rl, sl,
          asyncFlag, wire, hist, psVars>>

connVars == <<Conn, Reader, closedConns, nConns>>
sessVars == <<sessionMap, done, sessionPool, nSess>>
handVars == <<asyncHandlerMap, hcb, handlerPool, nHand, timers>>
loopVars == <<rl, sl>>
netVars == <<asyncFlag, wire>>

\* Messages: a request built by newReqMessage is named by its sequence
\* number, a message handed to PushMsg by a negative number.
PushIds == {0 - i : i \in 1..MaxPush}
Msgs == Seqs \cup PushIds

IdleProc == [pc |-> "idle", op |-> "none", seq |-> 0, obj |-> Nil,
             tmo |-> "none", res |-> "none"]
IdleLoop == [pc |-> "off", msg |-> 0, obj |-> Nil, conn |-> Nil, stops |-> 0]
IdleSend == [pc |-> "off", ch |-> 0, msg |-> 0, conn |-> Nil]

InitHist == [
    late      |-> {},   \* seqs whose response arrived after the Call timed out
    lateDelivered |-> {},  \* <<late response seq, seq of the Call that got it>>
    foreign   |-> {},   \* <<response seq, callback of another seq invoked for
                        \*   it, whether that seq's CallAsync had failed>>
    removed   |-> [s \in Seqs |-> 0],   \* handler removals + recycles per seq
    puts      |-> [s \in Seqs |-> 0],   \* sessionPut calls per Call seq
    accepted  |-> [m \in Msgs |-> 0],   \* channel that accepted the message
    retained  |-> [m \in Msgs |-> 0],   \* msg.Retain() calls
    released  |-> [m \in Msgs |-> 0],   \* msg.Release() calls by a sendLoop
    stops     |-> 0,    \* Stop calls that found running = true
    closes    |-> 0,    \* close(chSend) executions
    connCloses|-> 0,    \* c.Conn.Close() executions inside Stop
    onStop    |-> 0,    \* onStop invocations
    onDisc    |-> 0,    \* onDisConnected invocations
    stopPanic |-> 0,    \* Stop calls that panicked
    rejected  |-> {}    \* seqs of CallAsync calls that returned an error
]

\* Pub/sub: connections, topic names ("" is 0), objects and threads.
Peers == 1..NumPeers
Names == 1..MaxTopics
EmptyName == 0
CtsIds == 1..MaxCts
AgentIds == 1..MaxAgents

\* The receive loop of connection c and the thread that calls c.Stop().
RecvThread(c) == c
StopThread(c) == NumPeers + c

IdleHandler == [pc |-> "idle", kind |-> "none", name |-> EmptyName,
                cts |-> Nil, tp |-> Nil, resp |-> "none"]
IdleStop == [pc |-> "idle", cts |-> Nil]

InitPsHist == [
    cleaned |-> {},  \* connections whose deleteClient has returned
    stale   |-> {},  \* connections a publish reached after their cleanup
    nested  |-> {}   \* locks acquired by a thread holding a Client.mux
]

\* NewServer, and the connections accepted and started (Run) before any
\* request: no UserData, empty Server.topics.
InitPubSub ==
    /\ UserData = [c \in Peers |-> Nil]
    /\ nCts = 0
    /\ topicAgents = [x \in CtsIds |-> [n \in Names |-> Nil]]
    /\ ctsMux = [x \in CtsIds |-> [w |-> Nil, r |-> {}]]
    /\ topics = [n \in Names |-> Nil]
    /\ nAgents = 0
    /\ agentName = [a \in AgentIds |-> EmptyName]
    /\ members = [a \in AgentIds |-> {}]
    /\ peerRunning = [c \in Peers |-> TRUE]
    /\ peerMux = [c \in Peers |-> Nil]
    /\ reqs = [c \in Peers |-> 0]
    /\ hd = [c \in Peers |-> IdleHandler]
    /\ st = [c \in Peers |-> IdleStop]
    /\ pshist = InitPsHist

\* newClientWithConn (Dialer = nil, onStop set) or NewClient (Dialer set,
\* onStop nil): a connected client that is not running yet.
Init ==
    /\ InitPubSub
    /\ Dialer \in BOOLEAN
    /\ running = FALSE
    /\ reconnecting = FALSE
    /\ Conn = 1
    /\ Reader = 1
    /\ closedConns = {}
    /\ nConns = 1
    /\ chSend = 0
    /\ chans = [g \in Gens |-> [buf |-> <<>>, closed |-> FALSE]]
    /\ seq = 0
    /\ sessionMap = [s \in Seqs |-> Nil]
    /\ asyncHandlerMap = [s \in Seqs |-> Nil]
    /\ done = [o \in Objs |-> <<>>]
    /\ sessionPool = {}
    /\ nSess = 0
    /\ hcb = [o \in Objs |-> 0]
    /\ handlerPool = {}
    /\ nHand = 0
    /\ timers = {}
    /\ proc = [p \in Procs |-> IdleProc]
    /\ pushes = 0
    /\ rl = [g \in Gens |-> IdleLoop]
    /\ sl = [g \in Gens |-> IdleSend]
    /\ asyncFlag = [s \in Seqs |-> 0 - 1]
    /\ wire = {}
    /\ hist = InitHist

\* ------------------------------------------------------------ Run / Stop

\* Client.onStop is set by newClientWithConn only, Client.Dialer by NewClient
\* only.  onDisConnected is registered (Handler.HandleDisconnected).
onStopSet == ~Dialer

\* Client.Run, under c.mux.  A Run that finds running = true changes nothing.
Run ==
    /\ ~running
    /\ chSend < MaxRuns
    /\ running' = TRUE
    /\ chSend' = chSend + 1
    /\ chans' = [chans EXCEPT ![chSend + 1] = [buf |-> <<>>, closed |-> FALSE]]
    /\ sl' = [sl EXCEPT ![chSend + 1] = [IdleSend EXCEPT !.pc = "start"]]
    /\ rl' = [rl EXCEPT ![chSend + 1] = [IdleLoop EXCEPT !.pc = "start"]]
    /\ UNCHANGED <<Dialer, reconnecting, connVars, seq, sessVars, handVars,
                   proc, pushes, netVars, hist>>

\* The body of Client.Stop, under c.mux, as a relation on the variables it
\* touches; `h` is the history before the call.  c.Conn.Close() on a nil
\* Conn panics after running was cleared: the deferred Unlock runs, and
\* neither close(c.chSend) nor the callbacks are reached.
StopBody(h) ==
    IF ~running
    THEN /\ UNCHANGED <<running, closedConns, chans>>
         /\ hist' = h
    ELSE /\ running' = FALSE
         /\ IF Conn = Nil
            THEN /\ UNCHANGED <<closedConns, chans>>
                 /\ hist' = [h EXCEPT !.stops = @ + 1, !.stopPanic = @ + 1]
            ELSE /\ closedConns' = closedConns \cup {Conn}
                 /\ chans' = [chans EXCEPT ![chSend].closed = TRUE]
                 /\ hist' = [h EXCEPT
                        !.stops = @ + 1,
                        !.connCloses = @ + 1,
                        !.closes = @ + (IF chans[chSend].closed THEN 0 ELSE 1),
                        !.onStop = @ + (IF onStopSet THEN 1 ELSE 0),
                        !.onDisc = @ + 1]

\* Client.Stop called by the application.
Stop ==
    /\ StopBody(hist)
    /\ UNCHANGED <<Dialer, reconnecting, Conn, Reader, nConns, chSend, seq,
                   sessVars, handVars, proc, pushes, loopVars, netVars>>

\* ------------------------------------------------------------------ pools

\* sessionPool.Get(): an object lying in the pool, or one New allocates.
SessionChoices ==
    sessionPool \cup (IF nSess < MaxObjs THEN {nSess + 1} ELSE {})

\* asyncHandlerPool.Get(): likewise.
HandlerChoices ==
    handlerPool \cup (IF nHand < MaxObjs THEN {nHand + 1} ELSE {})

\* The channel operation `ch <- msg` of a select: what it can do now.
CanEnqueue(g) == ~chans[g].closed /\ Len(chans[g].buf) < SendQueueSize
Enqueued(g, m) == [chans EXCEPT ![g].buf = Append(@, m)]

\* ------------------------------------------------------------------- Call

\* Client.Call, `if !c.running`: the unsynchronised read of running.
CallStart(p) ==
    /\ proc[p].pc = "idle"
    /\ proc' = [proc EXCEPT ![p] =
          IF ~running
          THEN [IdleProc EXCEPT !.op = "Call", !.res = "ErrClientStopped"]
          ELSE [IdleProc EXCEPT !.op = "Call", !.pc = "c_rc"]]
    /\ UNCHANGED <<Dialer, running, reconnecting, connVars, chSend, chans, seq,
                   sessVars, handVars, pushes, loopVars, netVars, hist>>

\* `if c.reconnecting`, then `if timeout <= 0` (validTimeout says whether
\* the caller's timeout is positive).
CallCheckReconnecting(p) ==
    /\ proc[p].pc = "c_rc"
    /\ \E validTimeout \in BOOLEAN :
         proc' = [proc EXCEPT ![p] =
            IF reconnecting
            THEN [@ EXCEPT !.pc = "idle", !.res = "ErrClientReconnecting"]
            ELSE IF ~validTimeout
                 THEN [@ EXCEPT !.pc = "idle", !.res = "ErrInvalidTimeout"]
                 ELSE [@ EXCEPT !.pc = "c_new"]]
    /\ UNCHANGED <<Dialer, running, reconnecting, connVars, chSend, chans, seq,
                   sessVars, handVars, pushes, loopVars, netVars, hist>>

\* newReqMessage (atomic.AddUint64(&c.seq, 1)), sessionGet(seq) and
\* addSession(seq, sess).
CallRegister(p) ==
    /\ proc[p].pc = "c_new"
    /\ seq < MaxSeq
    /\ \E o \in SessionChoices :
         /\ seq' = seq + 1
         /\ sessionPool' = sessionPool \ {o}
         /\ nSess' = IF o \in sessionPool THEN nSess ELSE nSess + 1
         /\ sessionMap' = [sessionMap EXCEPT ![seq + 1] = o]
         /\ proc' = [proc EXCEPT ![p] =
                        [@ EXCEPT !.pc = "c_enq", !.seq = seq + 1, !.obj = o]]
    /\ asyncFlag' = [asyncFlag EXCEPT ![seq + 1] = 0]
    /\ UNCHANGED <<Dialer, running, reconnecting, connVars, chSend, chans, done,
                   handVars, pushes, loopVars, wire, hist>>

\* select { case c.chSend <- msg: ; case <-timer.C: return ErrClientTimeout }
\* A send on the channel Stop closed panics; the deferred function runs.
CallEnqueue(p) ==
    /\ proc[p].pc = "c_enq"
    /\ \/ /\ CanEnqueue(chSend)
          /\ chans' = Enqueued(chSend, proc[p].seq)
          /\ hist' = [hist EXCEPT !.accepted[proc[p].seq] = chSend]
          /\ proc' = [proc EXCEPT ![p].pc = "c_wait"]
       \/ /\ chans[chSend].closed
          /\ proc' = [proc EXCEPT ![p].pc = "c_defer", ![p].res = "panic"]
          /\ UNCHANGED <<chans, hist>>
       \/ /\ proc' = [proc EXCEPT ![p].pc = "c_defer",
                                  ![p].res = "ErrClientTimeout"]
          /\ UNCHANGED <<chans, hist>>
    /\ UNCHANGED <<Dialer, running, reconnecting, connVars, chSend, seq,
                   sessVars, handVars, pushes, loopVars, netVars>>

\* select { case msg = <-sess.done: ; case <-timer.C: return ErrClientTimeout }
CallWait(p) ==
    /\ proc[p].pc = "c_wait"
    /\ \/ /\ done[proc[p].obj] # <<>>
          /\ hist' = IF Head(done[proc[p].obj]) \in hist.late
                     THEN [hist EXCEPT !.lateDelivered = @ \cup
                              {<<Head(done[proc[p].obj]), proc[p].seq>>}]
                     ELSE hist
          /\ done' = [done EXCEPT ![proc[p].obj] = Tail(@)]
          /\ proc' = [proc EXCEPT ![p].pc = "c_defer", ![p].res = "ok"]
       \/ /\ proc' = [proc EXCEPT ![p].pc = "c_defer",
                                  ![p].res = "ErrClientTimeout"]
          /\ UNCHANGED <<done, hist>>
    /\ UNCHANGED <<Dialer, running, reconnecting, connVars, chSend, chans, seq,
                   sessionMap, sessionPool, nSess, handVars, pushes, loopVars,
                   netVars>>

\* sessionPut(sess): the object goes back to the pool; a message left in
\* its delivery slot is dropped.
SessionPut(o) ==
    /\ done' = [done EXCEPT ![o] = <<>>]
    /\ sessionPool' = sessionPool \cup {o}

\* A deferred function that cleans up on every exit but the timeouts.
CallDeferredLeaky(p) ==
    IF proc[p].res = "ErrClientTimeout"
    THEN UNCHANGED <<sessionMap, done, sessionPool, hist>>
    ELSE /\ sessionMap' = [sessionMap EXCEPT ![proc[p].seq] = Nil]
         /\ SessionPut(proc[p].obj)
         /\ hist' = [hist EXCEPT !.puts[proc[p].seq] = @ + 1]

\* The deferred function of Call, under c.mux:
\* delete(c.sessionMap, seq); sessionPut(sess).
CallDeferred(p) ==
    /\ sessionMap' = [sessionMap EXCEPT ![proc[p].seq] = Nil]
    /\ SessionPut(proc[p].obj)
    /\ hist' = [hist EXCEPT !.puts[proc[p].seq] = @ + 1]

CallReturn(p) ==
    /\ proc[p].pc = "c_defer"
    /\ CallDeferred(p)
    /\ proc' = [proc EXCEPT ![p].pc = "idle", ![p].obj = Nil]
    /\ UNCHANGED <<Dialer, running, reconnecting, connVars, chSend, chans, seq,
                   nSess, handVars, pushes, loopVars, netVars>>

\* -------------------------------------------------------------- CallAsync

\* deleteAsyncHandler(seq), under c.mux: the entry, if present, is deleted
\* and its object recycled (asyncHandlerPut).  `h` is the history before.
DeleteAsyncHandler(s, h) ==
    IF asyncHandlerMap[s] # Nil
    THEN /\ asyncHandlerMap' = [asyncHandlerMap EXCEPT ![s] = Nil]
         /\ handlerPool' = handlerPool \cup {asyncHandlerMap[s]}
         /\ hist' = [h EXCEPT !.removed[s] = @ + 1]
    ELSE /\ UNCHANGED <<asyncHandlerMap, handlerPool>>
         /\ hist' = h

\* Client.CallAsync: newReqMessage(method, req, 1) comes first, then
\* `if !c.running`.
CallAsyncStart(p) ==
    /\ proc[p].pc = "idle"
    /\ seq < MaxSeq
    /\ seq' = seq + 1
    /\ asyncFlag' = [asyncFlag EXCEPT ![seq + 1] = 1]
    /\ proc' = [proc EXCEPT ![p] =
          IF ~running
          THEN [IdleProc EXCEPT !.op = "CallAsync", !.seq = seq + 1,
                                !.res = "ErrClientStopped"]
          ELSE [IdleProc EXCEPT !.op = "CallAsync", !.seq = seq + 1,
                                !.pc = "a_rc"]]
    /\ hist' = IF ~running
               THEN [hist EXCEPT !.rejected = @ \cup {seq + 1}]
               ELSE hist
    /\ UNCHANGED <<Dialer, running, reconnecting, connVars, chSend, chans,
                   sessVars, handVars, pushes, loopVars, wire>>

\* A CallAsync that never looks at reconnecting.
CallAsyncIgnoresReconnecting(p) ==
    /\ proc[p].pc = "a_rc"
    /\ \E cb \in BOOLEAN :
         proc' = [proc EXCEPT ![p].pc = IF cb THEN "a_reg" ELSE "a_enq"]
    /\ UNCHANGED <<Dialer, running, reconnecting, connVars, chSend, chans, seq,
                   sessVars, handVars, pushes, loopVars, netVars, hist>>

\* `if c.reconnecting`, then `if h != nil`: cb says whether the caller
\* supplied a callback (Notify passes nil).
CallAsyncCheckReconnecting(p) ==
    /\ proc[p].pc = "a_rc"
    /\ \E cb \in BOOLEAN :
         proc' = [proc EXCEPT ![p] =
            IF reconnecting
            THEN [@ EXCEPT !.pc = "idle", !.res = "ErrClientReconnecting"]
            ELSE [@ EXCEPT !.pc = IF cb THEN "a_reg" ELSE "a_enq"]]
    /\ hist' = IF reconnecting
               THEN [hist EXCEPT !.rejected = @ \cup {proc[p].seq}]
               ELSE hist
    /\ UNCHANGED <<Dialer, running, reconnecting, connVars, chSend, chans, seq,
                   sessVars, handVars, pushes, loopVars, netVars>>

\* handler = asyncHandlerGet(h) writes the callback into the
\* object it got; c.addAsyncHandler(seq, handler).
CallAsyncRegister(p) ==
    /\ proc[p].pc = "a_reg"
    /\ \E o \in HandlerChoices :
         /\ handlerPool' = handlerPool \ {o}
         /\ nHand' = IF o \in handlerPool THEN nHand ELSE nHand + 1
         /\ hcb' = [hcb EXCEPT ![o] = proc[p].seq]
         /\ asyncHandlerMap' = [asyncHandlerMap EXCEPT ![proc[p].seq] = o]
         /\ proc' = [proc EXCEPT ![p].pc = "a_enq", ![p].obj = o]
    /\ UNCHANGED <<Dialer, running, reconnecting, connVars, chSend, chans, seq,
                   sessVars, timers, pushes, loopVars, netVars, hist>>

\* The failure branch of either select: msg.Release();
\* c.deleteAsyncHandler(seq); return err.
CallAsyncFail(p, err) ==
    /\ DeleteAsyncHandler(proc[p].seq,
                          [hist EXCEPT !.rejected = @ \cup {proc[p].seq}])
    /\ proc' = [proc EXCEPT ![p].pc = "idle", ![p].res = err, ![p].obj = Nil]
    /\ UNCHANGED chans

\* `switch timeout`: TimeZero ("zero") is the non-blocking select with a
\* default branch, any other value ("pos") the select against a timer.
CallAsyncEnqueue(p) ==
    /\ proc[p].pc = "a_enq"
    /\ \E tmo \in {"zero", "pos"} :
       \/ /\ CanEnqueue(chSend)
          /\ chans' = Enqueued(chSend, proc[p].seq)
          /\ hist' = [hist EXCEPT !.accepted[proc[p].seq] = chSend]
          /\ proc' = [proc EXCEPT ![p].pc = "a_sent", ![p].tmo = tmo]
          /\ UNCHANGED <<asyncHandlerMap, handlerPool>>
       \/ /\ chans[chSend].closed
          /\ proc' = [proc EXCEPT ![p].pc = "idle", ![p].res = "panic",
                                  ![p].obj = Nil]
          /\ UNCHANGED <<chans, hist, asyncHandlerMap, handlerPool>>
       \/ /\ tmo = "zero"
          /\ ~chans[chSend].closed
          /\ Len(chans[chSend].buf) >= SendQueueSize
          /\ CallAsyncFail(p, "ErrClientQueueIsFull")
       \/ /\ tmo = "pos"
          /\ CallAsyncFail(p, "ErrClientTimeout")
    /\ UNCHANGED <<Dialer, running, reconnecting, connVars, chSend, seq,
                   sessVars, hcb, nHand, timers, pushes, loopVars, netVars>>

\* Whether the success branch arms handler.t = time.AfterFunc(timeout, ...):
\* only the `default:` case of the switch does, and only with a callback.
ArmsTimer(tmo, handler) == tmo = "pos" /\ handler # Nil

\* After a successful enqueue: msg.Retain(), the expiry timer, return nil.
CallAsyncSent(p) ==
    /\ proc[p].pc = "a_sent"
    /\ hist' = [hist EXCEPT !.retained[proc[p].seq] = @ + 1]
    /\ timers' = IF ArmsTimer(proc[p].tmo, proc[p].obj)
                 THEN timers \cup {proc[p].seq}
                 ELSE timers
    /\ proc' = [proc EXCEPT ![p].pc = "idle", ![p].res = "ok",
                            ![p].obj = Nil, ![p].tmo = "none"]
    /\ UNCHANGED <<Dialer, running, reconnecting, connVars, chSend, chans, seq,
                   sessVars, asyncHandlerMap, hcb, handlerPool, nHand, pushes,
                   loopVars, netVars>>

\* The function given to time.AfterFunc: c.deleteAsyncHandler(seq).
TimerFire(s) ==
    /\ s \in timers
    /\ timers' = timers \ {s}
    /\ DeleteAsyncHandler(s, hist)
    /\ UNCHANGED <<Dialer, running, reconnecting, connVars, chSend, chans, seq,
                   sessVars, hcb, nHand, proc, pushes, loopVars, netVars>>

\* ---------------------------------------------------------------- PushMsg

\* Client.PushMsg, `if !c.running`.
PushMsgStart(p) ==
    /\ proc[p].pc = "idle"
    /\ pushes < MaxPush
    /\ pushes' = pushes + 1
    /\ proc' = [proc EXCEPT ![p] =
          IF ~running
          THEN [IdleProc EXCEPT !.op = "PushMsg", !.seq = 0 - (pushes + 1),
                                !.res = "ErrClientStopped"]
          ELSE [IdleProc EXCEPT !.op = "PushMsg", !.seq = 0 - (pushes + 1),
                                !.pc = "p_rc"]]
    /\ UNCHANGED <<Dialer, running, reconnecting, connVars, chSend, chans, seq,
                   sessVars, handVars, loopVars, netVars, hist>>

\* `if c.reconnecting`.
PushMsgCheckReconnecting(p) ==
    /\ proc[p].pc = "p_rc"
    /\ proc' = [proc EXCEPT ![p] =
          IF reconnecting
          THEN [@ EXCEPT !.pc = "idle", !.res = "ErrClientReconnecting"]
          ELSE [@ EXCEPT !.pc = "p_enq"]]
    /\ UNCHANGED <<Dialer, running, reconnecting, connVars, chSend, chans, seq,
                   sessVars, handVars, pushes, loopVars, netVars, hist>>

\* `switch timeout`: the plain send (TimeForever or a negative timeout), the
\* select with default (TimeZero), the select against a timer (any other).
PushMsgEnqueue(p) ==
    /\ proc[p].pc = "p_enq"
    /\ \E tmo \in {"forever", "zero", "pos"} :
       \/ /\ CanEnqueue(chSend)
          /\ chans' = Enqueued(chSend, proc[p].seq)
          /\ hist' = [hist EXCEPT !.accepted[proc[p].seq] = chSend]
          /\ proc' = [proc EXCEPT ![p].pc = "p_sent"]
       \/ /\ chans[chSend].closed
          /\ proc' = [proc EXCEPT ![p].pc = "idle", ![p].res = "panic"]
          /\ UNCHANGED <<chans, hist>>
       \/ /\ tmo = "zero"
          /\ ~chans[chSend].closed
          /\ Len(chans[chSend].buf) >= SendQueueSize
          /\ proc' = [proc EXCEPT ![p].pc = "idle",
                                  ![p].res = "ErrClientQueueIsFull"]
          /\ UNCHANGED <<chans, hist>>
       \/ /\ tmo = "pos"
          /\ proc' = [proc EXCEPT ![p].pc = "idle",
                                  ![p].res = "ErrClientTimeout"]
          /\ UNCHANGED <<chans, hist>>
    /\ UNCHANGED <<Dialer, running, reconnecting, connVars, chSend, seq,
                   sessVars, handVars, pushes, loopVars, netVars>>

\* msg.Retain(); return nil.
PushMsgSent(p) ==
    /\ proc[p].pc = "p_sent"
    /\ hist' = [hist EXCEPT !.retained[proc[p].seq] = @ + 1]
    /\ proc' = [proc EXCEPT ![p].pc = "idle", ![p].res = "ok"]
    /\ UNCHANGED <<Dialer, running, reconnecting, connVars, chSend, chans, seq,
                   sessVars, handVars, pushes, loopVars, netVars>>

\* --------------------------------------------------------------- sendLoop

\* `for msg := range c.chSend`: the goroutine reads the field c.chSend when
\* it first runs, and ranges over that channel from then on.
SendLoopStart(g) ==
    /\ sl[g].pc = "start"
    /\ sl' = [sl EXCEPT ![g].pc = "range", ![g].ch = chSend]
    /\ UNCHANGED <<Dialer, running, reconnecting, connVars, chSend, chans, seq,
                   sessVars, handVars, proc, pushes, rl, netVars, hist>>

\* One iteration of the range: the next message, or the exit once the
\* channel is closed and drained.
SendLoopNext(g) ==
    /\ sl[g].pc = "range"
    /\ \/ /\ chans[sl[g].ch].buf # <<>>
          /\ sl' = [sl EXCEPT ![g].pc = "conn",
                              ![g].msg = Head(chans[sl[g].ch].buf)]
          /\ chans' = [chans EXCEPT ![sl[g].ch].buf = Tail(@)]
       \/ /\ chans[sl[g].ch].buf = <<>>
          /\ chans[sl[g].ch].closed
          /\ sl' = [sl EXCEPT ![g].pc = "done"]
          /\ UNCHANGED chans
    /\ UNCHANGED <<Dialer, running, reconnecting, connVars, chSend, seq,
                   sessVars, handVars, proc, pushes, rl, netVars, hist>>

\* `conn = c.Conn`.
SendLoopReadConn(g) ==
    /\ sl[g].pc = "conn"
    /\ sl' = [sl EXCEPT ![g].pc = "write", ![g].conn = Conn]
    /\ UNCHANGED <<Dialer, running, reconnecting, connVars, chSend, chans, seq,
                   sessVars, handVars, proc, pushes, rl, netVars, hist>>

\* `if !c.reconnecting { c.Handler.Send(conn, msg.Payload()) }`: whether the
\* write is attempted at all.
SendLoopWrites == ~reconnecting

\* Handler.Send: the write reaches the peer only on an open connection.  A
\* request that reached the peer can be answered (a write that fails on an
\* open connection is a request the peer never answers).
Send(conn, m) ==
    IF conn # Nil /\ conn \notin closedConns /\ m \in Seqs
    THEN wire \cup {<<m, conn>>}
    ELSE wire

\* The write, then msg.Release(), whatever the write did.
SendLoopWrite(g) ==
    /\ sl[g].pc = "write"
    /\ wire' = IF SendLoopWrites THEN Send(sl[g].conn, sl[g].msg) ELSE wire
    /\ hist' = [hist EXCEPT !.released[sl[g].msg] = @ + 1]
    /\ sl' = [sl EXCEPT ![g].pc = "range", ![g].msg = 0, ![g].conn = Nil]
    /\ UNCHANGED <<Dialer, running, reconnecting, connVars, chSend, chans, seq,
                   sessVars, handVars, proc, pushes, rl, asyncFlag>>

\* --------------------------------------------------------------- recvLoop

\* `addr = c.Conn.RemoteAddr()`: a method call on a nil Conn panics, and
\* nothing in the goroutine recovers.
RecvLoopStart(g) ==
    /\ rl[g].pc = "start"
    /\ rl' = [rl EXCEPT ![g].pc = IF Conn = Nil THEN "panic" ELSE "loop"]
    /\ UNCHANGED <<Dialer, running, reconnecting, connVars, chSend, chans, seq,
                   sessVars, handVars, proc, pushes, sl, netVars, hist>>

\* `for c.running` (the only loop without a dialer, the outer one with).
RecvLoopCheck(g) ==
    /\ rl[g].pc = "loop"
    /\ rl' = [rl EXCEPT ![g].pc = IF running THEN "recv" ELSE "done"]
    /\ UNCHANGED <<Dialer, running, reconnecting, connVars, chSend, chans, seq,
                   sessVars, handVars, proc, pushes, sl, netVars, hist>>

\* Where the loop continues after c.Handler.OnMessage: with a dialer the
\* inner `for` reads again without looking at running.
AfterMessage == IF Dialer THEN "recv" ELSE "loop"

\* The Call, if any, that has left its select with ErrClientTimeout for
\* sequence number s and has not run its deferred function yet.
TimedOut(s) ==
    \E p \in Procs : /\ proc[p].op = "Call"
                     /\ proc[p].seq = s
                     /\ proc[p].pc = "c_defer"
                     /\ proc[p].res = "ErrClientTimeout"

\* getSession(seq), under c.mux: the lookup alone; the lock is released
\* before the pointer is used.
GetSession(s) == sessionMap[s]

\* c.Handler.Recv returns a response, and OnMessage looks up its session:
\* found, the loop holds the session pointer and goes on to deliver; not
\* found, the message is dropped.
RecvSyncResponse(g, s) ==
    /\ asyncFlag[s] = 0
    /\ IF GetSession(s) # Nil
       THEN /\ rl' = [rl EXCEPT ![g].pc = "deliver", ![g].msg = s,
                                ![g].obj = GetSession(s)]
            /\ hist' = IF TimedOut(s)
                       THEN [hist EXCEPT !.late = @ \cup {s}]
                       ELSE hist
       ELSE /\ rl' = [rl EXCEPT ![g].pc = AfterMessage]
            /\ UNCHANGED hist
    /\ UNCHANGED <<asyncHandlerMap, handlerPool>>

\* getAndDeleteAsyncHandler(seq), under c.mux: the entry is deleted and its
\* object put back into the pool (asyncHandlerPut) before the pointer is
\* returned to OnMessage.
RecvAsyncResponse(g, s) ==
    /\ asyncFlag[s] = 1
    /\ IF asyncHandlerMap[s] # Nil
       THEN rl' = [rl EXCEPT ![g].pc = "invoke", ![g].msg = s,
                             ![g].obj = asyncHandlerMap[s]]
       ELSE rl' = [rl EXCEPT ![g].pc = AfterMessage]
    /\ DeleteAsyncHandler(s, hist)

\* c.Handler.Recv(c) returns a message: a response to a request written to
\* the connection c.Reader wraps.
RecvLoopMessage(g) ==
    /\ rl[g].pc = "recv"
    /\ Reader \notin closedConns
    /\ \E s \in Seqs :
         /\ <<s, Reader>> \in wire
         /\ wire' = wire \ {<<s, Reader>>}
         /\ RecvSyncResponse(g, s) \/ RecvAsyncResponse(g, s)
    /\ UNCHANGED <<Dialer, running, reconnecting, connVars, chSend, chans, seq,
                   sessVars, hcb, nHand, timers, proc, pushes, sl, asyncFlag>>

\* `session.done <- msg`, outside the lock, on the pointer getSession gave.
RecvLoopDeliver(g) ==
    /\ rl[g].pc = "deliver"
    /\ done[rl[g].obj] = <<>>
    /\ done' = [done EXCEPT ![rl[g].obj] = <<rl[g].msg>>]
    /\ rl' = [rl EXCEPT ![g].pc = AfterMessage, ![g].msg = 0, ![g].obj = Nil]
    /\ UNCHANGED <<Dialer, running, reconnecting, connVars, chSend, chans, seq,
                   sessionMap, sessionPool, nSess, handVars, proc, pushes, sl,
                   netVars, hist>>

\* `handler.h(ctx)`, outside the lock: the callback read from the object
\* getAndDeleteAsyncHandler returned.
RecvLoopInvoke(g) ==
    /\ rl[g].pc = "invoke"
    /\ hist' = IF hcb[rl[g].obj] # rl[g].msg
               THEN [hist EXCEPT !.foreign = @ \cup
                        {<<rl[g].msg, hcb[rl[g].obj],
                           hcb[rl[g].obj] \in hist.rejected>>}]
               ELSE hist
    /\ rl' = [rl EXCEPT ![g].pc = AfterMessage, ![g].msg = 0, ![g].obj = Nil]
    /\ UNCHANGED <<Dialer, running, reconnecting, connVars, chSend, chans, seq,
                   sessVars, handVars, proc, pushes, sl, netVars>>

\* c.Handler.Recv(c) returns an error.  Without a dialer: c.Stop(); return.
\* With one: break out of the read loop.
RecvLoopError(g) ==
    /\ rl[g].pc = "recv"
    /\ IF Dialer
       THEN /\ rl' = [rl EXCEPT ![g].pc = "setrc"]
            /\ UNCHANGED <<running, closedConns, chans, hist>>
       ELSE /\ rl' = [rl EXCEPT ![g].pc = "done"]
            /\ StopBody(hist)
    /\ UNCHANGED <<Dialer, reconnecting, Conn, Reader, nConns, chSend, seq,
                   sessVars, handVars, proc, pushes, sl, netVars>>

\* `c.reconnecting = true`.
RecvLoopSetReconnecting(g) ==
    /\ rl[g].pc = "setrc"
    /\ reconnecting' = TRUE
    /\ rl' = [rl EXCEPT ![g].pc = "close"]
    /\ UNCHANGED <<Dialer, running, connVars, chSend, chans, seq, sessVars,
                   handVars, proc, pushes, sl, netVars, hist>>

\* `c.Conn.Close()`: panics on a nil Conn.
RecvLoopCloseConn(g) ==
    /\ rl[g].pc = "close"
    /\ IF Conn = Nil
       THEN /\ rl' = [rl EXCEPT ![g].pc = "panic"]
            /\ UNCHANGED closedConns
       ELSE /\ rl' = [rl EXCEPT ![g].pc = "setnil"]
            /\ closedConns' = closedConns \cup {Conn}
    /\ UNCHANGED <<Dialer, running, reconnecting, Conn, Reader, nConns, chSend,
                   chans, seq, sessVars, handVars, proc, pushes, sl, netVars,
                   hist>>

\* `c.Conn = nil`.
RecvLoopSetNil(g) ==
    /\ rl[g].pc = "setnil"
    /\ Conn' = Nil
    /\ rl' = [rl EXCEPT ![g].pc = "dialchk"]
    /\ UNCHANGED <<Dialer, running, reconnecting, Reader, closedConns, nConns,
                   chSend, chans, seq, sessVars, handVars, proc, pushes, sl,
                   netVars, hist>>

\* The inner `for c.running` around the dialer.
RecvLoopDialCheck(g) ==
    /\ rl[g].pc = "dialchk"
    /\ rl' = [rl EXCEPT ![g].pc = IF running THEN "dial" ELSE "loop"]
    /\ UNCHANGED <<Dialer, running, reconnecting, connVars, chSend, chans, seq,
                   sessVars, handVars, proc, pushes, sl, netVars, hist>>

\* `c.Conn, err = c.Dialer()`.  On success c.Reader wraps the new
\* connection; on failure Conn holds the nil the dialer returned and the
\* loop sleeps a second.
RecvLoopDial(g) ==
    /\ rl[g].pc = "dial"
    /\ \/ /\ nConns < MaxConns
          /\ nConns' = nConns + 1
          /\ Conn' = nConns + 1
          /\ Reader' = nConns + 1
          /\ rl' = [rl EXCEPT ![g].pc = "clear", ![g].conn = nConns + 1,
                              ![g].stops = hist.stops]
       \/ /\ Conn' = Nil
          /\ rl' = [rl EXCEPT ![g].pc = "dialchk"]
          /\ UNCHANGED <<nConns, Reader>>
    /\ UNCHANGED <<Dialer, running, reconnecting, closedConns, chSend, chans,
                   seq, sessVars, handVars, proc, pushes, sl, netVars, hist>>

\* `c.reconnecting = false`, then break to the outer `for c.running`.
RecvLoopClearReconnecting(g) ==
    /\ rl[g].pc = "clear"
    /\ reconnecting' = FALSE
    /\ rl' = [rl EXCEPT ![g].pc = "loop"]
    /\ UNCHANGED <<Dialer, running, connVars, chSend, chans, seq, sessVars,
                   handVars, proc, pushes, sl, netVars, hist>>

\* ------------------------------------------------------------------- Next

\* An unrecovered panic in a goroutine of the runtime ends the process.
Crashed == \E g \in Gens : rl[g].pc = "panic"

CallStep(p) ==
    \/ CallStart(p)
    \/ CallCheckReconnecting(p)
    \/ CallRegister(p)
    \/ CallEnqueue(p)
    \/ CallWait(p)
    \/ CallReturn(p)

CallAsyncStep(p) ==
    \/ CallAsyncStart(p)
    \/ CallAsyncCheckReconnecting(p)
    \/ CallAsyncRegister(p)
    \/ CallAsyncEnqueue(p)
    \/ CallAsyncSent(p)

PushMsgStep(p) ==
    \/ PushMsgStart(p)
    \/ PushMsgCheckReconnecting(p)
    \/ PushMsgEnqueue(p)
    \/ PushMsgSent(p)

SendLoopStep(g) ==
    \/ SendLoopStart(g)
    \/ SendLoopNext(g)
    \/ SendLoopReadConn(g)
    \/ SendLoopWrite(g)

RecvLoopStep(g) ==
    \/ RecvLoopStart(g)
    \/ RecvLoopCheck(g)
    \/ RecvLoopMessage(g)
    \/ RecvLoopDeliver(g)
    \/ RecvLoopInvoke(g)
    \/ RecvLoopError(g)
    \/ RecvLoopSetReconnecting(g)
    \/ RecvLoopCloseConn(g)
    \/ RecvLoopSetNil(g)
    \/ RecvLoopDialCheck(g)
    \/ RecvLoopDial(g)
    \/ RecvLoopClearReconnecting(g)

\* The whole runtime: any number of Run and Stop calls, every operation from
\* every application goroutine.
Next ==
    /\ UNCHANGED psVars
    /\ ~Crashed
    /\ \/ Run
       \/ Stop
       \/ \E p \in Procs : CallStep(p) \/ CallAsyncStep(p) \/ PushMsgStep(p)
       \/ \E s \in Seqs : TimerFire(s)
       \/ \E g \in Gens : SendLoopStep(g) \/ RecvLoopStep(g)

Spec == Init /\ [][Next]_vars

\* The specifications below are Next with the application restricted to one
\* kind of traffic, so that each is explored exhaustively.

\* The application calls Run once.
RunOnce == chSend = 0 /\ Run

\* Synchronous calls from every application goroutine, on a client that is
\* started once, stopped at any time, and reconnects if it has a dialer.
NextCall ==
    /\ UNCHANGED psVars
    /\ ~Crashed
    /\ \/ RunOnce
       \/ Stop
       \/ \E p \in Procs : CallStep(p)
       \/ \E g \in Gens : SendLoopStep(g) \/ RecvLoopStep(g)

SpecCall == Init /\ [][NextCall]_vars

\* Asynchronous calls and notifications, likewise.
NextAsync ==
    /\ UNCHANGED psVars
    /\ ~Crashed
    /\ \/ RunOnce
       \/ Stop
       \/ \E p \in Procs : CallAsyncStep(p)
       \/ \E s \in Seqs : TimerFire(s)
       \/ \E g \in Gens : SendLoopStep(g) \/ RecvLoopStep(g)

SpecAsync == Init /\ [][NextAsync]_vars

\* Every kind of operation from one application goroutine, on a client
\* built by NewClient with a dialer; the goroutine makes its synchronous
\* Call before its asynchronous ones.
InitDialer == Init /\ Dialer

NextEntry ==
    /\ UNCHANGED psVars
    /\ ~Crashed
    /\ \/ RunOnce
       \/ Stop
       \/ ((seq = 0 \/ proc[1].pc # "idle") /\ CallStep(1))
       \/ CallAsyncStep(1)
       \/ PushMsgStep(1)
       \/ \E s \in Seqs : TimerFire(s)
       \/ \E g \in Gens : SendLoopStep(g) \/ RecvLoopStep(g)

SpecEntry == InitDialer /\ [][NextEntry]_vars

\* The life cycle: Run and Stop in any order and number, with one
\* application goroutine pushing messages.
NextLife ==
    /\ UNCHANGED psVars
    /\ ~Crashed
    /\ \/ Run
       \/ Stop
       \/ PushMsgStep(1)
       \/ \E g \in Gens : SendLoopStep(g) \/ RecvLoopStep(g)

SpecLife == Init /\ [][NextLife]_vars

\* ---------------------------------------------------------- pub/sub Server

clientVars == <<Dialer, running, reconnecting, Conn, Reader, closedConns,
                nConns, chSend, chans, seq, sessionMap, asyncHandlerMap, done,
                sessionPool, nSess, hcb, handlerPool, nHand, timers, proc,
                pushes, rl, sl, asyncFlag, wire, hist>>
ctsVars == <<UserData, nCts, topicAgents, ctsMux>>
regVars == <<topics, nAgents, agentName>>
stopVars == <<peerRunning, peerMux, st>>

Kinds == {"authenticate", "subscribe", "unsubscribe", "publish",
          "publishToOne"}

\* The receive loop of a running connection reads the next request and
\* dispatches it to the handler registered for its route (NewServer).
Receive(c) ==
    /\ hd[c].pc = "idle"
    /\ peerRunning[c]
    /\ reqs[c] < MaxReqs
    /\ reqs' = [reqs EXCEPT ![c] = @ + 1]
    /\ \E k \in Kinds :
         hd' = [hd EXCEPT ![c] =
                  [IdleHandler EXCEPT !.kind = k,
                      !.pc = IF k = "authenticate" THEN "auth" ELSE "chk"]]
    /\ UNCHANGED <<ctsVars, regVars, members, stopVars, pshist>>

\* Server.addClient: a fresh clientTopics replaces whatever UserData held.
addClient(c) ==
    /\ nCts < MaxCts
    /\ nCts' = nCts + 1
    /\ UserData' = [UserData EXCEPT ![c] = nCts + 1]

\* Server.onAuthenticate: a body that does not bind, a wrong password, or
\* the configured one.
onAuthenticate(c) ==
    /\ hd[c].pc = "auth"
    /\ \/ /\ hd' = [hd EXCEPT ![c].pc = "idle", ![c].resp = "error"]
          /\ UNCHANGED <<UserData, nCts>>
       \/ /\ hd' = [hd EXCEPT ![c].pc = "idle",
                              ![c].resp = "ErrInvalidPassword"]
          /\ UNCHANGED <<UserData, nCts>>
       \/ /\ addClient(c)
          /\ hd' = [hd EXCEPT ![c].pc = "idle", ![c].resp = "ok"]
    /\ UNCHANGED <<topicAgents, ctsMux, regVars, members, stopVars, reqs,
                   pshist>>

\* Server.invalid.
invalid(c) == UserData[c] = Nil

\* Where a handler goes once its request has passed the checks: onPublish
\* and onPublishToOne answer (ctx.Write(nil)) before they fan out.
Entry(k) ==
    CASE k = "subscribe" -> [pc |-> "sub_lock", resp |-> "none"]
      [] k = "unsubscribe" -> [pc |-> "un_lock", resp |-> "none"]
      [] OTHER -> [pc |-> "gom_r", resp |-> "ok"]

\* A handler head without the authentication gate: a connection without
\* UserData has its publish taken to the fan-out and every other request
\* acknowledged.
HandlerCheckOpen(c) ==
    /\ hd[c].pc = "chk"
    /\ \E n \in Names \cup {EmptyName}, bodyOk \in BOOLEAN :
          hd' = [hd EXCEPT ![c] =
             IF ~bodyOk
             THEN [@ EXCEPT !.pc = "idle", !.resp = "error"]
             ELSE IF n = EmptyName
                  THEN [@ EXCEPT !.pc = "idle",
                                 !.resp = "ErrInvalidTopicEmpty"]
                  ELSE IF invalid(c) /\ Entry(hd[c].kind).pc # "gom_r"
                       THEN [@ EXCEPT !.pc = "idle", !.resp = "ok"]
                       ELSE [@ EXCEPT !.pc = Entry(hd[c].kind).pc,
                                      !.resp = Entry(hd[c].kind).resp,
                                      !.name = n]]
    /\ UNCHANGED <<ctsVars, regVars, members, stopVars, reqs, pshist>>

\* The head of onSubscribe, onUnsubscribe, onPublish and onPublishToOne:
\* `if s.invalid(ctx) { return }` (nothing is written back),
\* topic.fromBytes(ctx.Body()), `if topicName != ""`.
HandlerCheck(c) ==
    /\ hd[c].pc = "chk"
    /\ IF invalid(c)
       THEN hd' = [hd EXCEPT ![c].pc = "idle"]
       ELSE \E n \in Names \cup {EmptyName}, bodyOk \in BOOLEAN :
              hd' = [hd EXCEPT ![c] =
                 IF ~bodyOk
                 THEN [@ EXCEPT !.pc = "idle", !.resp = "error"]
                 ELSE IF n = EmptyName
                      THEN [@ EXCEPT !.pc = "idle",
                                     !.resp = "ErrInvalidTopicEmpty"]
                      ELSE [@ EXCEPT !.pc = Entry(hd[c].kind).pc,
                                     !.resp = Entry(hd[c].kind).resp,
                                     !.name = n]]
    /\ UNCHANGED <<ctsVars, regVars, members, stopVars, reqs, pshist>>

\* An onSubscribe that refuses a connection that is subscribed already.
onSubscribeLockOnce(c) ==
    /\ hd[c].pc = "sub_lock"
    /\ ctsMux[UserData[c]] = [w |-> Nil, r |-> {}]
    /\ IF topicAgents[UserData[c]][hd[c].name] # Nil
       THEN /\ hd' = [hd EXCEPT ![c].pc = "idle", ![c].resp = "error",
                         ![c].tp = topicAgents[UserData[c]][hd[c].name]]
            /\ UNCHANGED ctsMux
       ELSE /\ hd' = [hd EXCEPT ![c].pc = "gom_r", ![c].cts = UserData[c]]
            /\ ctsMux' = [ctsMux EXCEPT ![UserData[c]].w = RecvThread(c)]
    /\ UNCHANGED <<UserData, nCts, topicAgents, regVars, members, stopVars,
                   reqs, pshist>>

\* onSubscribe: cts := ctx.Client.UserData; cts.mux.Lock(); the lookup.  An
\* entry that is there is answered at once; otherwise the lock stays held
\* across getOrMakeTopic.
onSubscribeLock(c) ==
    /\ hd[c].pc = "sub_lock"
    /\ ctsMux[UserData[c]] = [w |-> Nil, r |-> {}]
    /\ IF topicAgents[UserData[c]][hd[c].name] # Nil
       THEN /\ hd' = [hd EXCEPT ![c].pc = "idle", ![c].resp = "ok",
                         ![c].tp = topicAgents[UserData[c]][hd[c].name]]
            /\ UNCHANGED ctsMux
       ELSE /\ hd' = [hd EXCEPT ![c].pc = "gom_r", ![c].cts = UserData[c]]
            /\ ctsMux' = [ctsMux EXCEPT ![UserData[c]].w = RecvThread(c)]
    /\ UNCHANGED <<UserData, nCts, topicAgents, regVars, members, stopVars,
                   reqs, pshist>>

\* Where getOrMakeTopic returns to.
AfterTopic(k) == IF k = "subscribe" THEN "sub_set" ELSE "pub_fan"

\* getOrMakeTopic, the lookup under s.mux.RLock().
getOrMakeTopicRead(c) ==
    /\ hd[c].pc = "gom_r"
    /\ hd' = [hd EXCEPT ![c] =
                IF topics[hd[c].name] # Nil
                THEN [@ EXCEPT !.pc = AfterTopic(hd[c].kind),
                               !.tp = topics[hd[c].name]]
                ELSE [@ EXCEPT !.pc = "gom_w"]]
    /\ UNCHANGED <<ctsVars, regVars, members, stopVars, reqs, pshist>>

\* A getOrMakeTopic whose write section inserts without looking again.
getOrMakeTopicBlind(c) ==
    /\ hd[c].pc = "gom_w"
    /\ nAgents < MaxAgents
    /\ nAgents' = nAgents + 1
    /\ agentName' = [agentName EXCEPT ![nAgents + 1] = hd[c].name]
    /\ topics' = [topics EXCEPT ![hd[c].name] = nAgents + 1]
    /\ hd' = [hd EXCEPT ![c].pc = AfterTopic(hd[c].kind), ![c].tp = nAgents + 1]
    /\ UNCHANGED <<ctsVars, members, stopVars, reqs, pshist>>

\* getOrMakeTopic, the section under s.mux.Lock(): look again, and only if
\* the name is still absent newTopicAgent(topic) and the insert.
getOrMakeTopicWrite(c) ==
    /\ hd[c].pc = "gom_w"
    /\ IF topics[hd[c].name] # Nil
       THEN /\ hd' = [hd EXCEPT ![c].pc = AfterTopic(hd[c].kind),
                                ![c].tp = topics[hd[c].name]]
            /\ UNCHANGED regVars
       ELSE /\ nAgents < MaxAgents
            /\ nAgents' = nAgents + 1
            /\ agentName' = [agentName EXCEPT ![nAgents + 1] = hd[c].name]
            /\ topics' = [topics EXCEPT ![hd[c].name] = nAgents + 1]
            /\ hd' = [hd EXCEPT ![c].pc = AfterTopic(hd[c].kind),
                                ![c].tp = nAgents + 1]
    /\ UNCHANGED <<ctsVars, members, stopVars, reqs, pshist>>

\* onSubscribe: cts.topicAgents[topicName] = tp; cts.mux.Unlock().
onSubscribeSet(c) ==
    /\ hd[c].pc = "sub_set"
    /\ topicAgents' = [topicAgents EXCEPT ![hd[c].cts][hd[c].name] = hd[c].tp]
    /\ ctsMux' = [ctsMux EXCEPT ![hd[c].cts].w = Nil]
    /\ hd' = [hd EXCEPT ![c].pc = "sub_add"]
    /\ UNCHANGED <<UserData, nCts, regVars, members, stopVars, reqs, pshist>>

\* TopicAgent.Add and TopicAgent.Delete, each under the agent's own lock.
Add(tp, c) == [members EXCEPT ![tp] = @ \cup {c}]
Delete(tp, c) == [members EXCEPT ![tp] = @ \ {c}]

\* onSubscribe: tp.Add(ctx.Client); ctx.Write(nil).
onSubscribeAdd(c) ==
    /\ hd[c].pc = "sub_add"
    /\ members' = Add(hd[c].tp, c)
    /\ hd' = [hd EXCEPT ![c].pc = "idle", ![c].resp = "ok",
                        ![c].cts = Nil, ![c].tp = Nil]
    /\ UNCHANGED <<ctsVars, regVars, stopVars, reqs, pshist>>

\* onUnsubscribe: the lookup under cts.mux.Lock(); an entry that is there
\* is deleted from the connection's map before the lock is released.
onUnsubscribeLock(c) ==
    /\ hd[c].pc = "un_lock"
    /\ ctsMux[UserData[c]] = [w |-> Nil, r |-> {}]
    /\ IF topicAgents[UserData[c]][hd[c].name] # Nil
       THEN /\ topicAgents' = [topicAgents EXCEPT
                                 ![UserData[c]][hd[c].name] = Nil]
            /\ hd' = [hd EXCEPT ![c].pc = "un_del",
                         ![c].tp = topicAgents[UserData[c]][hd[c].name]]
       ELSE /\ hd' = [hd EXCEPT ![c].pc = "idle", ![c].resp = "ok"]
            /\ UNCHANGED topicAgents
    /\ UNCHANGED <<UserData, nCts, ctsMux, regVars, members, stopVars, reqs,
                   pshist>>

\* onUnsubscribe: ta.Delete(ctx.Client); ctx.Write(nil).
onUnsubscribeDelete(c) ==
    /\ hd[c].pc = "un_del"
    /\ members' = Delete(hd[c].tp, c)
    /\ hd' = [hd EXCEPT ![c].pc = "idle", ![c].resp = "ok", ![c].tp = Nil]
    /\ UNCHANGED <<ctsVars, regVars, stopVars, reqs, pshist>>

\* TopicAgent.Publish / PublishToOne: the members the message goes to, the
\* sender left out.
Reached(tp, c, k) ==
    IF k = "publish"
    THEN {members[tp] \ {c}}
    ELSE {{}} \cup {{m} : m \in members[tp] \ {c}}

\* onPublish / onPublishToOne: the fan-out.
Publish(c) ==
    /\ hd[c].pc = "pub_fan"
    /\ \E to \in Reached(hd[c].tp, c, hd[c].kind) :
         pshist' = [pshist EXCEPT !.stale = @ \cup (to \cap pshist.cleaned)]
    /\ hd' = [hd EXCEPT ![c].pc = "idle", ![c].tp = Nil]
    /\ UNCHANGED <<ctsVars, regVars, members, stopVars, reqs>>

\* Client.Stop on a running connection: c.mux.Lock(), running = false, the
\* connection and the queue closed, then c.onDisConnected(c) with the lock
\* still held (the deferred Unlock runs when Stop returns).
StopPeer(c) ==
    /\ st[c].pc = "idle"
    /\ peerMux[c] = Nil
    /\ peerRunning[c]
    /\ peerRunning' = [peerRunning EXCEPT ![c] = FALSE]
    /\ peerMux' = [peerMux EXCEPT ![c] = StopThread(c)]
    /\ st' = [st EXCEPT ![c].pc = "disc"]
    /\ UNCHANGED <<ctsVars, regVars, members, reqs, hd, pshist>>

\* The locks a thread takes while it holds the Client.mux of c.
Nested(c, t, lock) ==
    IF peerMux[c] = t THEN pshist.nested \cup {lock} ELSE pshist.nested

\* Server.deleteClient, the on-disconnected callback (HandleDisconnected):
\* `if c.UserData == nil { return }`.
deleteClientCheck(c) ==
    /\ st[c].pc = "disc"
    /\ IF UserData[c] = Nil
       THEN /\ st' = [st EXCEPT ![c].pc = "done"]
            /\ peerMux' = [peerMux EXCEPT ![c] = Nil]
            /\ pshist' = [pshist EXCEPT !.cleaned = @ \cup {c}]
       ELSE /\ st' = [st EXCEPT ![c].pc = "dc_rlock", ![c].cts = UserData[c]]
            /\ UNCHANGED <<peerMux, pshist>>
    /\ UNCHANGED <<ctsVars, regVars, members, peerRunning, reqs, hd>>

\* deleteClient: cts.mux.RLock().
deleteClientRLock(c) ==
    /\ st[c].pc = "dc_rlock"
    /\ ctsMux[st[c].cts].w = Nil
    /\ ctsMux' = [ctsMux EXCEPT ![st[c].cts].r = @ \cup {StopThread(c)}]
    /\ pshist' = [pshist EXCEPT
                    !.nested = Nested(c, StopThread(c), "clientTopics.mux")]
    /\ st' = [st EXCEPT ![c].pc = "dc_del"]
    /\ UNCHANGED <<UserData, nCts, topicAgents, regVars, members, peerRunning,
                   peerMux, reqs, hd>>

\* deleteClient: `for _, tp := range cts.topicAgents { tp.Delete(c) }`.
deleteClientDelete(c) ==
    /\ st[c].pc = "dc_del"
    /\ members' = [a \in AgentIds |->
                     IF \E n \in Names : topicAgents[st[c].cts][n] = a
                     THEN members[a] \ {c}
                     ELSE members[a]]
    /\ pshist' = IF \E n \in Names : topicAgents[st[c].cts][n] # Nil
                 THEN [pshist EXCEPT
                         !.nested = Nested(c, StopThread(c), "TopicAgent.mux")]
                 ELSE pshist
    /\ st' = [st EXCEPT ![c].pc = "dc_unlock"]
    /\ UNCHANGED <<ctsVars, regVars, peerRunning, peerMux, reqs, hd>>

\* deleteClient returns (the deferred RUnlock), and Stop with it.
deleteClientReturn(c) ==
    /\ st[c].pc = "dc_unlock"
    /\ ctsMux' = [ctsMux EXCEPT ![st[c].cts].r = @ \ {StopThread(c)}]
    /\ peerMux' = [peerMux EXCEPT ![c] = Nil]
    /\ pshist' = [pshist EXCEPT !.cleaned = @ \cup {c}]
    /\ st' = [st EXCEPT ![c].pc = "done", ![c].cts = Nil]
    /\ UNCHANGED <<UserData, nCts, topicAgents, regVars, members, peerRunning,
                   reqs, hd>>

HandlerStep(c) ==
    \/ Receive(c)
    \/ onAuthenticate(c)
    \/ HandlerCheck(c)
    \/ onSubscribeLock(c)
    \/ getOrMakeTopicRead(c)
    \/ getOrMakeTopicWrite(c)
    \/ onSubscribeSet(c)
    \/ onSubscribeAdd(c)
    \/ onUnsubscribeLock(c)
    \/ onUnsubscribeDelete(c)
    \/ Publish(c)

StopStep(c) ==
    \/ StopPeer(c)
    \/ deleteClientCheck(c)
    \/ deleteClientRLock(c)
    \/ deleteClientDelete(c)
    \/ deleteClientReturn(c)

\* The Server with its connections: requests handled on each connection's
\* receive loop, Stop called on a connection at any time.
NextPubSub ==
    /\ UNCHANGED clientVars
    /\ \E c \in Peers : HandlerStep(c) \/ StopStep(c)

InitServer == Init /\ ~Dialer

SpecPubSub == InitServer /\ [][NextPubSub]_vars

\* ------------------------------------------------------------- properties

InCall(p) == proc[p].op = "Call" /\ proc[p].pc \in {"c_enq", "c_wait", "c_defer"}

\* C1: a response that arrives after its Call has timed out is delivered to
\* no caller at all: no Call, the timed-out one or a later one that got the
\* recycled session object, ever receives it from a delivery slot.
C1_LateResponseDiscarded ==
    \A s \in hist.late : ~\E d \in hist.lateDelivered : d[1] = s

\* C2: every Call that registered a session has, once it returned, removed
\* the session from sessionMap and put it back into the pool exactly once,
\* whatever its result; until then the session stays registered and out of
\* the pool; and with no Call in progress sessionMap is empty.
C2_SessionRecycledOnce ==
    /\ \A p \in Procs :
          InCall(p) =>
             /\ sessionMap[proc[p].seq] = proc[p].obj
             /\ proc[p].obj \notin sessionPool
             /\ hist.puts[proc[p].seq] = 0
    /\ \A s \in Seqs :
          (asyncFlag[s] = 0 /\ ~\E p \in Procs : InCall(p) /\ proc[p].seq = s)
             => sessionMap[s] = Nil /\ hist.puts[s] = 1
    /\ (\A p \in Procs : ~InCall(p)) => \A s \in Seqs : sessionMap[s] = Nil

\* A state in which Calls have returned by different exits (a response
\* received, a timeout) and none is in progress.
C2_Witness ==
    /\ \A p \in Procs : proc[p].op = "Call" /\ proc[p].pc = "idle"
    /\ \E p, q \in Procs : /\ proc[p].res = "ok"
                            /\ proc[q].res = "ErrClientTimeout"
                            /\ hist.puts[proc[p].seq] = 1
                            /\ hist.puts[proc[q].seq] = 1

RejectErrors == {"ErrClientStopped", "ErrClientReconnecting"}

\* C3: an operation that finds the client not running returns
\* ErrClientStopped, one that finds it running and reconnecting returns
\* ErrClientReconnecting, and the rejected operation has put nothing on the
\* outbound queue and left no session or async handler registered.
C3_RejectedImmediately ==
    [][\A p \in Procs :
          /\ (proc[p].pc = "idle" /\ proc'[p] # proc[p] /\ ~running) =>
                proc'[p].pc = "idle" /\ proc'[p].res = "ErrClientStopped"
          /\ (proc[p].pc \in {"c_rc", "a_rc", "p_rc"} /\ proc'[p] # proc[p]
                  /\ reconnecting) =>
                proc'[p].pc = "idle" /\ proc'[p].res = "ErrClientReconnecting"
          /\ (proc'[p] # proc[p] /\ proc'[p].res \in RejectErrors) =>
                UNCHANGED <<chans, sessionMap, asyncHandlerMap>>
          /\ (proc'[p].pc = "idle" /\ proc'[p].res \in RejectErrors) =>
                /\ proc'[p].obj = Nil
                /\ proc'[p].op = "Call" => proc'[p].seq = 0
                /\ proc'[p].op = "CallAsync" =>
                      /\ asyncHandlerMap'[proc'[p].seq] = Nil
                      /\ hist'.accepted[proc'[p].seq] = 0
                /\ proc'[p].op = "PushMsg" =>
                      hist'.accepted[proc'[p].seq] = 0]_vars

\* A CallAsync was rejected because the client was reconnecting, after an
\* earlier operation had been accepted.
C3_Witness ==
    /\ running
    /\ reconnecting
    /\ proc[1].pc = "idle"
    /\ proc[1].op = "CallAsync"
    /\ proc[1].res = "ErrClientReconnecting"
    /\ \E m \in Msgs : hist.accepted[m] # 0

\* C4: once CallAsync has returned an error, no handler for its sequence
\* number is in asyncHandlerMap and the callback it was given is never
\* invoked afterwards.
C4_RejectedNeverFires ==
    /\ \A s \in hist.rejected : asyncHandlerMap[s] = Nil
    /\ \A f \in hist.foreign : ~f[3]

\* C5: the handler registered for a sequence number is removed and recycled
\* at most once, and the callback invoked for a response is the one that
\* was supplied for the response's sequence number.
C5_HandlerOnceAndOwn ==
    /\ \A s \in Seqs : hist.removed[s] <= 1
    /\ \A f \in hist.foreign : f[2] = f[1]

\* C6: after a CallAsync with a callback has enqueued its message and
\* returned nil, its handler is either gone from asyncHandlerMap or has an
\* expiry timer armed that will remove it.
C6_ExpiryTimerArmed ==
    \A p \in Procs :
       (/\ proc[p].op = "CallAsync"
        /\ proc[p].pc = "idle"
        /\ proc[p].res = "ok"
        /\ asyncHandlerMap[proc[p].seq] # Nil) => proc[p].seq \in timers

SendLoopActive(g) == sl[g].pc \in {"range", "conn", "write"}
RecvLoopActive(g) == rl[g].pc \notin {"off", "start", "done", "panic"}

\* C7: at no time is more than one send loop, or more than one receive
\* loop, of the client executing.
C7_OneLoopPair ==
    /\ Cardinality({g \in Gens : SendLoopActive(g)}) <= 1
    /\ Cardinality({g \in Gens : RecvLoopActive(g)}) <= 1

\* C8: every Stop that found the client running closed the connection,
\* closed the outbound queue and invoked the registered callbacks, each
\* exactly once.
C8_StopOnce ==
    /\ hist.connCloses = hist.stops
    /\ hist.closes = hist.stops
    /\ hist.onDisc = hist.stops
    /\ hist.onStop = (IF onStopSet THEN hist.stops ELSE 0)

\* C9: when the send loop a Run started has terminated, every message that
\* was accepted onto the queue of that Run has been released exactly once.
C9_SendLoopDrains ==
    \A g \in Gens :
       sl[g].pc = "done" =>
          \A m \in Msgs : hist.accepted[m] = g => hist.released[m] = 1

\* C10: a read error makes the receive loop set reconnecting; an operation
\* that finds it set fails with ErrClientReconnecting; and when the loop
\* clears the flag after a successful dial, on a client that is running and
\* was not stopped since the dial, the connection it dialed is the client's
\* connection and is open.
C10_ReconnectRestores ==
    [][/\ \A g \in Gens :
            /\ (rl[g].pc = "setrc" /\ rl'[g].pc # "setrc") => reconnecting'
            /\ (rl[g].pc = "clear" /\ rl'[g].pc # "clear" /\ running'
                    /\ hist'.stops = rl[g].stops) =>
                  /\ ~reconnecting'
                  /\ Conn' = rl[g].conn
                  /\ Conn' \notin closedConns'
       /\ \A p \in Procs :
            (proc[p].pc \in {"c_rc", "a_rc", "p_rc"} /\ proc'[p] # proc[p]
                /\ reconnecting) =>
               proc'[p].res = "ErrClientReconnecting"]_vars

\* C11: once the operation that offered a message to the outbound queue
\* has returned, the message was retained exactly once if the queue accepted
\* it and not at all if it did not; and the send loop releases no message
\* more than once, and none that was not accepted.
C11_RetainReleasePaired ==
    \A m \in Msgs :
       /\ hist.released[m] <= 1
       /\ hist.released[m] = 1 => hist.accepted[m] # 0
       /\ (~\E p \in Procs : proc[p].seq = m /\ proc[p].pc # "idle") =>
              hist.retained[m] = (IF hist.accepted[m] # 0 THEN 1 ELSE 0)

\* C17: every write the send loop performs goes to the connection that is
\* the client's connection at the moment of the write: never to nil, and
\* never to a connection the receive loop has replaced.
C17_WritesLiveConn ==
    [][\A g \in Gens :
          (sl[g].pc = "write" /\ sl'[g].pc # "write" /\ SendLoopWrites) =>
             sl[g].conn # Nil /\ sl[g].conn = Conn]_vars

\* C18: a Stop that finds a client with a dialer running and reconnecting
\* completes without a fault, having closed the connection and the outbound
\* queue and invoked the on-disconnected callback once; and a receive loop
\* that finds the client stopped at the head of its dial loop does not
\* dial again.
C18_StopWhileReconnecting ==
    [][/\ (Dialer /\ reconnecting /\ running /\ ~running') =>
             /\ hist'.stopPanic = hist.stopPanic
             /\ hist'.connCloses = hist.connCloses + 1
             /\ hist'.closes = hist.closes + 1
             /\ hist'.onDisc = hist.onDisc + 1
             /\ chans'[chSend].closed
       /\ \A g \in Gens :
             (rl[g].pc = "dialchk" /\ rl'[g] # rl[g] /\ ~running) =>
                rl'[g].pc = "loop"]_vars

\* C19: no Call, CallAsync, Notify or PushMsg ever executes its send on an
\* outbound queue that Stop has closed (such a send panics).
C19_NoSendOnClosedQueue ==
    \A p \in Procs : proc[p].res # "panic"

\* The TopicAgents of name n that hold connection c.
Holding(n, c) == {a \in 1..nAgents : agentName[a] = n /\ c \in members[a]}

\* C12: every subscribe of an authenticated connection to a non-empty name
\* is answered with success, whether or not the connection is subscribed
\* already; and when it completes on a connection that was not stopped, the
\* connection's topic set has its entry for the name, the agent of that
\* entry is the Server's agent for the name, and the connection is in the
\* member set of that agent and of no other.
C12_SubscribeIdempotent ==
    [][\A c \in Peers :
          (/\ hd[c].pc \in {"sub_lock", "sub_add"}
           /\ hd'[c].pc = "idle") =>
             /\ hd'[c].resp = "ok"
             /\ peerRunning'[c] =>
                   /\ topicAgents'[UserData'[c]][hd[c].name] # Nil
                   /\ topicAgents'[UserData'[c]][hd[c].name]
                         = topics'[hd[c].name]
                   /\ Holding(hd[c].name, c)' = {topics'[hd[c].name]}]_vars

\* A connection has subscribed again to a topic it was subscribed to: the
\* request was answered from the entry found in its topic set.
C12_Witness ==
    \E c \in Peers :
       /\ hd[c].pc = "idle"
       /\ hd[c].kind = "subscribe"
       /\ hd[c].resp = "ok"
       /\ hd[c].tp # Nil
       /\ peerRunning[c]
       /\ c \in members[hd[c].tp]

\* C13: a connection whose disconnect cleanup (deleteClient) has returned
\* is a member of no TopicAgent, and no publish reaches it afterwards.
C13_CleanedNotMember ==
    /\ \A c \in pshist.cleaned : \A a \in AgentIds : c \notin members[a]
    /\ pshist.stale = {}

\* C14: a handler step of subscribe, unsubscribe, publish or publish-to-one
\* on a connection without UserData changes no topic or subscription state,
\* never reaches getOrMakeTopic or the fan-out, and ends the request
\* without a success answer; a wrong password leaves the connection without
\* UserData and is answered with ErrInvalidPassword.
C14_UnauthenticatedRejected ==
    [][\A c \in Peers :
          /\ (hd[c].pc = "chk" /\ invalid(c) /\ hd'[c] # hd[c]) =>
                /\ hd'[c].pc = "idle"
                /\ hd'[c].resp # "ok"
                /\ UNCHANGED <<UserData, topicAgents, topics, members, pshist>>
          /\ (invalid(c) /\ ~invalid(c)') => hd'[c].resp = "ok"
          /\ (hd[c].pc = "auth" /\ hd'[c].resp = "ErrInvalidPassword") =>
                UNCHANGED <<UserData, topicAgents, topics, members>>
          /\ invalid(c) =>
                hd[c].pc \in {"idle", "auth", "chk"}]_vars

\* A connection that never authenticated has had a request dropped while
\* another connection is subscribed to a topic.
C14_Witness ==
    \E c, d \in Peers :
       /\ invalid(c)
       /\ hd[c].pc = "idle"
       /\ hd[c].kind \in Kinds \ {"authenticate"}
       /\ hd[c].resp = "none"
       /\ \E a \in AgentIds : d \in members[a]

\* C15: no name has more than one TopicAgent allocated for it; an entry of
\* Server.topics, once set, never changes; and every getOrMakeTopic returns
\* the agent stored for its name.
C15_OneAgentPerName ==
    [][/\ \A n \in Names :
             /\ Cardinality({a \in 1..nAgents' : agentName'[a] = n}) <= 1
             /\ topics[n] # Nil => topics'[n] = topics[n]
       /\ \A c \in Peers :
             (hd[c].pc \in {"gom_r", "gom_w"}
                 /\ hd'[c].pc \notin {"gom_r", "gom_w"}) =>
                hd'[c].tp # Nil /\ hd'[c].tp = topics'[hd[c].name]]_vars

\* A getOrMakeTopic that found the name absent under the read lock is about
\* to take the write lock after another call has stored the agent.
C15_Witness ==
    \E c \in Peers : hd[c].pc = "gom_w" /\ topics[hd[c].name] # Nil

\* C16: no thread that holds a connection's Client.mux holds or acquires a
\* clientTopics.mux, a TopicAgent's lock or the Server's topic-map lock.
C16_NoLockUnderClientMux ==
    /\ pshist.nested = {}
    /\ \A c \in Peers : \A x \in CtsIds :
          peerMux[c] # Nil =>
             peerMux[c] \notin ctsMux[x].r /\ ctsMux[x].w # peerMux[c]

\* C20: whenever connection c is authenticated, connected, and has no
\* handler or cleanup in progress, c is a member of the agent of a name
\* exactly if the name is in c's own topic set; and an unsubscribe for a
\* name that is not in c's set changes neither set and is answered with
\* success.
C20_MemberIffSubscribed ==
    [][\A c \in Peers :
          /\ (/\ ~invalid(c)'
              /\ peerRunning'[c]
              /\ hd'[c].pc = "idle"
              /\ st'[c].pc = "idle") =>
                \A n \in Names :
                   (Holding(n, c)' # {}) <=>
                      (topicAgents'[UserData'[c]][n] # Nil)
          /\ (/\ hd[c].pc = "un_lock"
              /\ topicAgents[UserData[c]][hd[c].name] = Nil
              /\ hd'[c] # hd[c]) =>
                /\ UNCHANGED <<topicAgents, members>>
                /\ hd'[c].resp = "ok"]_vars

====
